---- MODULE Spec2Model ----
(***************************************************************************)
(* Model of include/arinc429/arinc429.h (eld::arinc429): the descriptor    *)
(* traits, the field lookup get_data_descriptor, the conversion functions  *)
(* get_value / set_value and the word container word_generic.              *)
(*                                                                         *)
(* A word type (the pack DataDescriptors...) is a sequence of descriptor   *)
(* records.  Template instantiation that the compiler rejects is modelled  *)
(* as an outcome ("not_found", "ambiguous", "ill_formed") of the operation *)
(* that would instantiate it; no state changes in that case.               *)
(*                                                                         *)
(* Values (integral or floating) are exact rationals [n, d]; an integral   *)
(* value has d = 1.  Raw words are kept below 2^31 by the input sets, so   *)
(* no arithmetic of the model wraps.                                        *)
(***************************************************************************)
EXTENDS Integers, Sequences, FiniteSets, TLC

VARIABLES
    wordType,     \* DataDescriptors... of the word type under study
    constructed,  \* TRUE once an instance of word_generic<wordType> exists
    raw_word_,    \* word_generic::raw_word_ of that instance
    last,         \* the last operation, its arguments and what it did
    written,      \* history: the rawWord given to the latest constructor or set_raw
    setSince      \* history: a set<NameType> has run on the word since then

vars == <<wordType, constructed, raw_word_, last, written, setSince>>

\* ------------------------------------------------------------------ bounds

\* Sample values 0..MaxField are placed in the bit ranges [1,8] and [9,16] of
\* the raw words, and passed to set.
MaxField == 2

\* ------------------------------------------------------------------ values

Rat(n, d) == [n |-> n, d |-> d]
IntVal(n) == Rat(n, 1)
RatEq(a, b) == a.n * b.d = b.n * a.d

\* traits::word_size = sizeof(uint32_t) * CHAR_BIT
word_size == 32

\* ------------------------------------------------------------- descriptors

\* A descriptor type.  get2/set2: the call forms the traits defines_getter /
\* defines_setter probe,  D()(declval<V>(), tag_get()) and
\* D()(declval<const V>(), tag_set()).  get3/set3: the call forms that are
\* actually invoked, D()(V&, word_raw_type, tag_get()) and
\* D()(const V&, word_raw_type&, tag_set()).
Descriptor(name, lsb, msb, signed, floating, num, den, get2, get3, set2, set3) ==
    [name |-> name, lsb |-> lsb, msb |-> msb, signed |-> signed,
     floating |-> floating, num |-> num, den |-> den,
     get2 |-> get2, get3 |-> get3, set2 |-> set2, set3 |-> set3]

\* template data_descriptor<NameType, LSB, MSB, ValueType, ScaleFactorT>:
\* defines no operator() at all.
data_descriptor(name, lsb, msb, signed, floating, num, den) ==
    Descriptor(name, lsb, msb, signed, floating, num, den,
               FALSE, FALSE, FALSE, FALSE)

\* static_assert(LSB < MSB) and static_assert(MSB <= traits::word_size)
data_descriptor_ok(d) == d.lsb < d.msb /\ d.msb <= word_size

\* "no type": the void NotFoundPlaceholder, and the absent result of a lookup
Void == data_descriptor("void", 0, 0, FALSE, FALSE, 1, 1)
\* a caller-supplied NotFoundPlaceholder type
Fallback == data_descriptor("fallback", 0, 0, FALSE, FALSE, 1, 1)

DA  == data_descriptor("A", 1, 8, FALSE, FALSE, 1, 1)
DB  == data_descriptor("B", 9, 16, FALSE, FALSE, 1, 1)
DS  == data_descriptor("S", 17, 18, TRUE, FALSE, 1, 1)
DA2 == data_descriptor("A", 17, 24, FALSE, FALSE, 1, 1)
\* a double field: std::is_signed<double> is true
DF  == data_descriptor("F", 1, 16, TRUE, TRUE, 1, 1000)
DL  == data_descriptor("L", 1, 16, FALSE, FALSE, 1, 1)
DU  == data_descriptor("U", 17, 32, FALSE, FALSE, 1, 1)
DBad == data_descriptor("Bad", 5, 5, FALSE, FALSE, 1, 1)
\* user descriptors with a custom codec: DH defines the invoked (3-argument)
\* forms only, DK defines those and the probed (2-argument) forms as well
DH  == Descriptor("H", 9, 12, FALSE, FALSE, 1, 1, FALSE, TRUE, FALSE, TRUE)
DK  == Descriptor("K", 1, 4, FALSE, FALSE, 1, 1, TRUE, TRUE, TRUE, TRUE)

Names == {"A", "B", "S", "F", "H", "K", "Z"}

WordTypes ==
    { <<DA, DB, DS>>,
      <<DS, DB, DA>>,
      <<DF, DS>>,
      <<DA, DH>>,
      <<DK, DB>>,
      <<DA, DB, DA2>>,
      <<DL, DU, DS>>,
      <<DL, DU, DA, DB>>,
      <<DA, DBad>> }

RawInputs ==
    { lo + 256 * hi + 65536 * s : lo \in 0..MaxField, hi \in 0..MaxField, s \in 0..3 }
    \cup {12345}

SetArgs == { IntVal(v) : v \in (-2)..MaxField } \cup { Rat(12345, 1000) }

\* ------------------------------------------------------------ bit helpers

\* bits [lsb, msb] (1-based, inclusive) of raw, right-aligned
BitField(raw, lsb, msb) == (raw \div 2^(lsb - 1)) % 2^(msb - lsb + 1)

\* raw with bits [lsb, msb] replaced by the low bits of v
WithField(raw, lsb, msb, v) ==
    raw - BitField(raw, lsb, msb) * 2^(lsb - 1)
        + (v % 2^(msb - lsb + 1)) * 2^(lsb - 1)

\* the two's complement reading of a w-bit pattern
TwosComplement(bits, w) == IF bits >= 2^(w - 1) THEN bits - 2^w ELSE bits

\* C++ integer division (truncation towards zero), den > 0 as std::ratio keeps it
TruncDiv(num, den) == IF num >= 0 THEN num \div den ELSE -((-num) \div den)

\* ------------------------------------------------------------- detail::sum

RECURSIVE sum(_)
sum(args) == IF args = <<>> THEN 0 ELSE Head(args) + sum(Tail(args))

\* The codec of a user descriptor (the body of its operator()): an
\* offset-coded discrete value, field bits + 100.
CustomGet(d, wordRaw) == IntVal(BitField(wordRaw, d.lsb, d.msb) + 100)
CustomSet(d, value, wordRaw) == WithField(wordRaw, d.lsb, d.msb, value.n - 100)

\* ------------------------------------------------------------------ traits

defines_getter(d) == d.get2
defines_setter(d) == d.set2

is_same_name_type(d, NameType) == d.name = NameType

filter(Tuple, NameType) ==
    SelectSeq(Tuple, LAMBDA d : is_same_name_type(d, NameType))

\* get_data_descriptor without the "Multiple data descriptors" static_assert
\* and with ::type taken from the unfiltered tuple
get_data_descriptor_unfiltered(NameType, Tuple, NotFoundPlaceholder) ==
    IF NotFoundPlaceholder = Void /\ Len(filter(Tuple, NameType)) = 0
    THEN [status |-> "not_found", type |-> Void]
    ELSE [status |-> "ok", type |-> Tuple[1]]

\* class get_data_descriptor<NameType, TupleDataDescriptors, NotFoundPlaceholder>
\* and its member ::type.  status "ok" carries the type; every other status is
\* a rejected instantiation: the two static_asserts, and tuple_element<0, ...>
\* of an empty tuple.
get_data_descriptor(NameType, Tuple, NotFoundPlaceholder) ==
    LET filtered_t == filter(Tuple, NameType) IN
    IF ~(NotFoundPlaceholder # Void \/ Len(filtered_t) # 0)
    THEN [status |-> "not_found", type |-> Void]
    ELSE IF ~(Len(filtered_t) < 2)
    THEN [status |-> "ambiguous", type |-> Void]
    ELSE IF Len(filtered_t) = 0
    THEN [status |-> "ill_formed", type |-> Void]
    ELSE [status |-> "ok", type |-> filtered_t[1]]

\* ------------------------------------------------------- conversion engine
\* A conversion returns [ok, dest, wordRaw, calls, scale]: whether the call is
\* well-formed, the destination value and the raw word as the call leaves
\* them, the functions reached, and the scaleFactor argument that was passed.

Conv(ok, dest, wordRaw, calls, scale) ==
    [ok |-> ok, dest |-> dest, wordRaw |-> wordRaw, calls |-> calls, scale |-> scale]

\* detail::get_integral_value, both overloads: empty body
get_integral_value(dest, wordRaw, lsb, msb, is_signed) == dest

\* detail::get_value(T&, word_raw_type, lsb, msb, scaleFactor, is_floating_point)
get_value(dest, wordRaw, lsb, msb, scaleFactor, is_signed, is_floating_point) ==
    IF is_floating_point
    THEN Conv(TRUE, dest, wordRaw, <<"get_value_floating">>, scaleFactor)
    ELSE Conv(TRUE, get_integral_value(dest, wordRaw, lsb, msb, is_signed),
              wordRaw, <<"get_value_integral", "get_integral_value">>, scaleFactor)

\* detail::get_value<DataDescriptor>(retVal, wordRaw, std::false_type)
get_value_generic(d, retVal, wordRaw) ==
    get_value(retVal, wordRaw, d.lsb, d.msb, TruncDiv(d.num, d.den),
              d.signed, d.floating)

\* detail::get_value<DataDescriptor>(retVal, wordRaw, std::true_type):
\* DataDescriptor()(retVal, wordRaw, tag_get()).  The descriptors' getters
\* take ValueType&, so a const destination does not bind.
get_value_custom(d, retVal, wordRaw, destIsConst) ==
    IF d.get3 /\ ~destIsConst
    THEN Conv(TRUE, CustomGet(d, wordRaw), wordRaw, <<"custom_get">>, 0)
    ELSE Conv(FALSE, retVal, wordRaw, <<>>, 0)

\* eld::arinc429::get_value<DataDescriptor>(retVal, wordRaw)
get_value_DD(d, retVal, wordRaw, destIsConst) ==
    IF defines_getter(d)
    THEN get_value_custom(d, retVal, wordRaw, destIsConst)
    ELSE get_value_generic(d, retVal, wordRaw)

\* detail::set_integral_value, both overloads: empty body
set_integral_value(value, wordRaw, lsb, msb, is_signed) == wordRaw

\* detail::set_value(const T&, word_raw_type&, lsb, msb, scaleFactor, is_floating_point)
set_value(value, wordRaw, lsb, msb, scaleFactor, is_signed, is_floating_point) ==
    IF is_floating_point
    THEN Conv(TRUE, value, wordRaw, <<"set_value_floating">>, scaleFactor)
    ELSE Conv(TRUE, value, set_integral_value(value, wordRaw, lsb, msb, is_signed),
              <<"set_value_integral", "set_integral_value">>, scaleFactor)

\* detail::set_value<DataDescriptor>(value, wordRaw, std::false_type)
set_value_generic(d, value, wordRaw) ==
    set_value(value, wordRaw, d.lsb, d.msb, TruncDiv(d.num, d.den),
              d.signed, d.floating)

\* detail::set_value<DataDescriptor>(value, wordRaw, std::true_type):
\* DataDescriptor()(value, wordRaw, tag_set())
set_value_custom(d, value, wordRaw) ==
    IF d.set3
    THEN Conv(TRUE, value, CustomSet(d, value, wordRaw), <<"custom_set">>, 0)
    ELSE Conv(FALSE, value, wordRaw, <<>>, 0)

\* set_value_DD with the field written by plain assignment of the shifted
\* value, the rest of the word lost
set_value_DD_overwrite(d, value, wordRaw) ==
    Conv(TRUE, value, (value.n % 2^(d.msb - d.lsb + 1)) * 2^(d.lsb - 1), <<>>, 0)

\* eld::arinc429::set_value<DataDescriptor>(value, wordRaw): its body calls
\* detail::get_value<DataDescriptor>(value, wordRaw, defines_getter<...>()),
\* which takes wordRaw by value and value as a const destination; the
\* caller's wordRaw is therefore left as it was.
set_value_DD(d, value, wordRaw) ==
    LET r == get_value_DD(d, value, wordRaw, TRUE) IN
    Conv(r.ok, value, wordRaw, r.calls, r.scale)

\* ---------------------------------------------------------- word_generic

\* the operands of detail::sum in word_generic's static_assert
DeclaredSizes(Tuple) == [i \in 1..Len(Tuple) |-> Tuple[i].msb - Tuple[i].lsb]

\* word_generic<DataDescriptors...> can be instantiated: its static_assert
\* holds, and so do those of every data_descriptor in the pack
word_generic_ok(Tuple) ==
    /\ \A i \in 1..Len(Tuple) : data_descriptor_ok(Tuple[i])
    /\ sum(DeclaredSizes(Tuple)) <= word_size

\* get with the word itself handed over as the destination of the
\* conversion, so that the decoded value lands in the raw word
word_get_into_raw(Tuple, NameType, raw) ==
    LET look == get_data_descriptor(NameType, Tuple, Void)
        r == get_value_DD(look.type, IntVal(0), raw, FALSE)
    IN  IF look.status # "ok"
        THEN [outcome |-> look.status, type |-> Void, value |-> IntVal(0),
              raw |-> raw, calls |-> <<>>, scale |-> 0]
        ELSE [outcome |-> IF r.ok THEN "ok" ELSE "ill_formed", type |-> look.type,
              value |-> r.dest, raw |-> IF r.ok THEN r.dest.n ELSE raw,
              calls |-> r.calls, scale |-> r.scale]

\* word_generic::get<NameType>() on a word holding raw
word_get(Tuple, NameType, raw) ==
    LET look == get_data_descriptor(NameType, Tuple, Void)
        r == get_value_DD(look.type, IntVal(0), raw, FALSE)
    IN  IF look.status # "ok"
        THEN [outcome |-> look.status, type |-> Void, value |-> IntVal(0),
              raw |-> raw, calls |-> <<>>, scale |-> 0]
        ELSE [outcome |-> IF r.ok THEN "ok" ELSE "ill_formed", type |-> look.type,
              value |-> r.dest, raw |-> raw, calls |-> r.calls, scale |-> r.scale]

\* word_generic::set<NameType>(value) on a word holding raw
word_set(Tuple, NameType, value, raw) ==
    LET look == get_data_descriptor(NameType, Tuple, Void)
        r == set_value_DD(look.type, value, raw)
    IN  IF look.status # "ok"
        THEN [outcome |-> look.status, type |-> Void, value |-> value,
              raw |-> raw, calls |-> <<>>, scale |-> 0]
        ELSE [outcome |-> IF r.ok THEN "ok" ELSE "ill_formed", type |-> look.type,
              value |-> value, raw |-> IF r.ok THEN r.wordRaw ELSE raw,
              calls |-> r.calls, scale |-> r.scale]

\* word_generic::get_raw
get_raw(raw) == raw

\* word_generic::operator traits::word_raw_type
operator_word_raw_type(raw) == get_raw(raw)

\* the conversion carrying over only the bits of the target's first field
operator_word_generic_masked(raw, ArgsT) ==
    [type |-> ArgsT,
     raw_word_ |-> WithField(0, ArgsT[1].lsb, ArgsT[1].msb,
                             BitField(raw, ArgsT[1].lsb, ArgsT[1].msb))]

\* word_generic::operator word_generic<ArgsT...>() const
operator_word_generic(raw, ArgsT) == [type |-> ArgsT, raw_word_ |-> get_raw(raw)]

\* ------------------------------------------------------------ the machine

NoOther == [type |-> <<>>, raw_word_ |-> 0]

\* The record of an operation: what was asked (op, name, arg, fallback), the
\* raw word it found (pre; 0 for a constructor and for set_raw, which do not
\* read it), and what it did: outcome, the descriptor looked
\* up (type), the value returned (value; converted, for a conversion to
\* another word type), the functions reached and the scaleFactor passed.
Op(op, name, arg, fallback, converted, pre, res) ==
    [op |-> op, name |-> name, arg |-> arg, fallback |-> fallback,
     converted |-> converted, pre |-> pre, outcome |-> res.outcome, type |-> res.type,
     value |-> res.value, calls |-> res.calls, scale |-> res.scale]

Plain(outcome, value) ==
    [outcome |-> outcome, type |-> Void, value |-> value, calls |-> <<>>, scale |-> 0]

Init ==
    /\ wordType \in WordTypes
    /\ constructed = FALSE
    /\ raw_word_ = 0
    /\ last = Op("none", "", IntVal(0), Void, NoOther, 0, Plain("ok", IntVal(0)))
    /\ written = 0
    /\ setSince = FALSE

\* traits::get_data_descriptor_t<NameType, tuple<DataDescriptors...>, NotFoundPlaceholder>
Lookup ==
    \E NameType \in Names, NotFoundPlaceholder \in {Void, Fallback} :
        LET look == get_data_descriptor(NameType, wordType, NotFoundPlaceholder) IN
        /\ last' = Op("lookup", NameType, IntVal(0), NotFoundPlaceholder, NoOther,
                      raw_word_,
                      [outcome |-> look.status, type |-> look.type,
                       value |-> IntVal(0), calls |-> <<>>, scale |-> 0])
        /\ UNCHANGED <<wordType, constructed, raw_word_, written, setSince>>

\* word_generic(rawWord)
Construct ==
    \E rawWord \in RawInputs :
        /\ word_generic_ok(wordType)
        /\ constructed' = TRUE
        /\ raw_word_' = rawWord
        /\ last' = Op("construct", "", IntVal(rawWord), Void, NoOther, 0,
                      Plain("ok", IntVal(0)))
        /\ written' = rawWord
        /\ setSince' = FALSE
        /\ UNCHANGED wordType

Get ==
    \E NameType \in Names :
        LET res == word_get(wordType, NameType, raw_word_) IN
        /\ constructed
        /\ raw_word_' = res.raw
        /\ last' = Op("get", NameType, IntVal(0), Void, NoOther, raw_word_, res)
        /\ UNCHANGED <<wordType, constructed, written, setSince>>

Set ==
    \E NameType \in Names, value \in SetArgs :
        LET res == word_set(wordType, NameType, value, raw_word_) IN
        /\ constructed
        /\ raw_word_' = res.raw
        /\ last' = Op("set", NameType, value, Void, NoOther, raw_word_, res)
        /\ setSince' = (setSince \/ res.outcome = "ok")
        /\ UNCHANGED <<wordType, constructed, written>>

GetRaw ==
    /\ constructed
    /\ last' = Op("get_raw", "", IntVal(0), Void, NoOther, raw_word_,
                  Plain("ok", IntVal(get_raw(raw_word_))))
    /\ UNCHANGED <<wordType, constructed, raw_word_, written, setSince>>

\* explicit operator traits::word_raw_type() const
ToRaw ==
    /\ constructed
    /\ last' = Op("to_raw", "", IntVal(0), Void, NoOther, raw_word_,
                  Plain("ok", IntVal(operator_word_raw_type(raw_word_))))
    /\ UNCHANGED <<wordType, constructed, raw_word_, written, setSince>>

SetRaw ==
    \E rawWord \in RawInputs :
        /\ constructed
        /\ raw_word_' = rawWord
        /\ last' = Op("set_raw", "", IntVal(rawWord), Void, NoOther, 0,
                      Plain("ok", IntVal(0)))
        /\ written' = rawWord
        /\ setSince' = FALSE
        /\ UNCHANGED <<wordType, constructed>>

Reinterpret ==
    \E ArgsT \in WordTypes :
        /\ constructed
        /\ word_generic_ok(ArgsT)
        /\ last' = Op("reinterpret", "", IntVal(0), Void,
                      operator_word_generic(raw_word_, ArgsT), raw_word_,
                      Plain("ok", IntVal(0)))
        /\ UNCHANGED <<wordType, constructed, raw_word_, written, setSince>>

Next ==
    Lookup \/ Construct \/ Get \/ Set \/ GetRaw \/ ToRaw \/ SetRaw \/ Reinterpret

Spec == Init /\ [][Next]_vars

\* ------------------------------------------------------ claim vocabulary

\* raw with the bits [lsb, msb] cleared
ClearField(raw, lsb, msb) == raw - BitField(raw, lsb, msb) * 2^(lsb - 1)

Disjoint(a, b) == a.msb < b.lsb \/ b.msb < a.lsb

\* the number of descriptors of Tuple named NameType
Matches(Tuple, NameType) ==
    Cardinality({ i \in 1..Len(Tuple) : Tuple[i].name = NameType })

Reverse(seq) == [i \in 1..Len(seq) |-> seq[Len(seq) + 1 - i]]

\* the descriptor has no custom codec in any form
NoCodec(d) == ~d.get2 /\ ~d.get3 /\ ~d.set2 /\ ~d.set3

Width(d) == d.msb - d.lsb + 1

\* v is an integer a field of d's width and signedness can hold
Representable(v, d) ==
    /\ v.d = 1
    /\ IF d.signed
       THEN -(2^(Width(d) - 1)) <= v.n /\ v.n <= 2^(Width(d) - 1) - 1
       ELSE 0 <= v.n /\ v.n <= 2^Width(d) - 1

\* the last operation was op, and its field lookup found a descriptor
Did(op) == last.op = op /\ last.type # Void

\* ----------------------------------------------------------------- C1

\* C1: word.set<A>(v) leaves every bit of the stored raw word outside A's
\* range [lsb, msb] as it was, so every field B of the word type whose range
\* is disjoint from A's decodes to the same value before and after the set.
C1_SetFrame ==
    (Did("set") /\ last.outcome = "ok") =>
        /\ ClearField(raw_word_, last.type.lsb, last.type.msb)
             = ClearField(last.pre, last.type.lsb, last.type.msb)
        /\ \A j \in 1..Len(wordType) :
              Disjoint(wordType[j], last.type) =>
                  word_get(wordType, wordType[j].name, raw_word_).value
                    = word_get(wordType, wordType[j].name, last.pre).value

\* a set of A = [1,8] to a value other than the one stored, in a word that
\* also has B = [9,16] with bits set in B and above it
C1_Witness ==
    /\ Did("set") /\ last.outcome = "ok"
    /\ last.type = DA /\ wordType = <<DA, DB, DS>>
    /\ last.arg.n # BitField(last.pre, 1, 8)
    /\ BitField(last.pre, 9, 16) = 2 /\ BitField(last.pre, 17, 18) = 3

\* ----------------------------------------------------------------- C2

\* C2: for an integral field without a custom codec and a value v its width
\* and signedness can hold, set<Name>(v) followed by get<Name>() returns v.
C2_RoundTrip ==
    (Did("set") /\ last.outcome = "ok" /\ NoCodec(last.type)
        /\ ~last.type.floating /\ Representable(last.arg, last.type)) =>
        word_get(wordType, last.name, raw_word_).value = last.arg

\* ----------------------------------------------------------------- C3

\* C3: get of a signed integral field returns the bits [lsb, msb] read as two's
\* complement of the field's width: 0b11 in a 2-bit field is -1, 0b01 is 1.
C3_SignExtension ==
    (Did("get") /\ last.outcome = "ok" /\ NoCodec(last.type)
        /\ ~last.type.floating /\ last.type.signed) =>
        last.value = IntVal(TwosComplement(
                        BitField(last.pre, last.type.lsb, last.type.msb),
                        Width(last.type)))

\* ----------------------------------------------------------------- C4

\* C4: for a floating-point field with scale factor num/den the multiplier
\* handed to the conversion is exactly num/den; get returns field integer *
\* num/den (12345 with 1/1000 gives 12.345) and set of a non-negative value
\* writes value / (num/den) into the field (12.345 writes 12345).
C4_ScaleFactor ==
    (last.outcome = "ok" /\ NoCodec(last.type) /\ last.type.floating) =>
        /\ Did("get") =>
              /\ last.scale * last.type.den = last.type.num
              /\ RatEq(last.value,
                       Rat(BitField(last.pre, last.type.lsb, last.type.msb)
                             * last.type.num, last.type.den))
        /\ (Did("set") /\ last.arg.n >= 0) =>
              /\ last.scale * last.type.den = last.type.num
              /\ BitField(raw_word_, last.type.lsb, last.type.msb)
                   * last.type.num * last.arg.d
                   = last.arg.n * last.type.den

\* ----------------------------------------------------------------- C5

\* C5: a lookup without a fallback succeeds exactly when one descriptor of the
\* set has the requested name, and then yields that descriptor; with no match
\* it is rejected as not found, with two or more as ambiguous; the descriptors
\* in the opposite order give the same result.
C5_LookupByCount ==
    (last.op = "lookup" /\ last.fallback = Void) =>
        LET n == Matches(wordType, last.name) IN
        /\ n = 1 => /\ last.outcome = "ok"
                    /\ last.type.name = last.name
                    /\ \E i \in 1..Len(wordType) : wordType[i] = last.type
        /\ n = 0 => last.outcome = "not_found"
        /\ n >= 2 => last.outcome = "ambiguous"
        /\ get_data_descriptor(last.name, Reverse(wordType), Void)
             = [status |-> last.outcome, type |-> last.type]

\* a successful lookup of a name that is not the set's first descriptor
C5_Witness ==
    /\ last.op = "lookup" /\ last.fallback = Void
    /\ last.outcome = "ok" /\ last.type = DB /\ wordType = <<DA, DB, DS>>

\* ----------------------------------------------------------------- C6

\* C6: with a fallback type supplied, the lookup of a name no descriptor has
\* succeeds and yields the fallback; a duplicated name is still rejected.
C6_LookupFallback ==
    (last.op = "lookup" /\ last.fallback # Void) =>
        LET n == Matches(wordType, last.name) IN
        /\ n = 0 => (last.outcome = "ok" /\ last.type = last.fallback)
        /\ n >= 2 => last.outcome = "ambiguous"

\* ----------------------------------------------------------------- C7

\* C7: every word type of which an instance exists declares at most 32 bits,
\* a descriptor with range [lsb, msb] declaring msb - lsb + 1 of them.
C7_Capacity ==
    constructed =>
        sum([i \in 1..Len(wordType) |-> Width(wordType[i])]) <= word_size

\* ----------------------------------------------------------------- C8

\* C8: set<Name>(v) on a field whose descriptor defines a custom set operation
\* invokes that operation and nothing else, and the stored raw word is what it
\* produced; on a descriptor without one the generic set path is used.
C8_CustomSetDispatch ==
    (Did("set") /\ last.outcome \in {"ok", "ill_formed"}) =>
        IF last.type.set3
        THEN /\ last.outcome = "ok"
             /\ last.calls = <<"custom_set">>
             /\ raw_word_ = CustomSet(last.type, last.arg, last.pre)
        ELSE /\ last.outcome = "ok"
             /\ last.calls \in { <<"set_value_integral", "set_integral_value">>,
                                 <<"set_value_floating">> }

\* ----------------------------------------------------------------- C9

\* C9: get<Name>() on a descriptor that defines the custom get operation in
\* the form in which it is invoked returns what that operation computes from
\* the raw word, the generic conversion not being used; defines_getter is true
\* for exactly those descriptors.
C9_CustomGetDispatch ==
    (Did("get") /\ last.outcome \in {"ok", "ill_formed"}) =>
        /\ defines_getter(last.type) <=> last.type.get3
        /\ last.type.get3 =>
              /\ last.outcome = "ok"
              /\ last.calls = <<"custom_get">>
              /\ last.value = CustomGet(last.type, last.pre)

\* ----------------------------------------------------------------- C10

\* C10: converting a word holding r to any other word type gives a word whose
\* raw value is r and leaves the converted word's raw value r; every word type
\* that can be instantiated is a possible target, whatever its layout.
C10_Reinterpret ==
    /\ last.op = "reinterpret" =>
          /\ last.outcome = "ok"
          /\ last.converted.raw_word_ = last.pre
          /\ raw_word_ = last.pre
    /\ constructed =>
          \A ArgsT \in WordTypes :
              word_generic_ok(ArgsT) =>
                  operator_word_generic(raw_word_, ArgsT)
                    = [type |-> ArgsT, raw_word_ |-> raw_word_]

\* a conversion of a word with bits set in all three fields to a word type
\* with other names and other ranges
C10_Witness ==
    /\ last.op = "reinterpret"
    /\ wordType = <<DA, DB, DS>> /\ last.converted.type = <<DF, DS>>
    /\ BitField(last.pre, 1, 8) = 1 /\ BitField(last.pre, 9, 16) = 2
    /\ BitField(last.pre, 17, 18) = 3
    /\ last.converted.raw_word_ = 1 + 256 * 2 + 65536 * 3

\* ----------------------------------------------------------------- C11

\* C11: a word type with two descriptors of the same name is rejected when it
\* is defined: no instance of a word type with duplicate field names exists,
\* whether or not the duplicated name is ever looked up.
C11_UniqueNames ==
    constructed =>
        \A i, j \in 1..Len(wordType) :
            i # j => wordType[i].name # wordType[j].name

\* ----------------------------------------------------------------- C12

\* C12: as long as no set<Name> has run since the latest constructor or
\* set_raw call, get_raw() (and the conversion to the raw type) returns the
\* value that call was given; get<Name>(), generic or custom, get_raw, the
\* conversion to the raw type and the conversion to another word type leave
\* the stored raw word as they found it.
C12_RawAccess ==
    constructed =>
        /\ ~setSince => get_raw(raw_word_) = written
        /\ (last.op \in {"get_raw", "to_raw"} /\ ~setSince) =>
              last.value = IntVal(written)
        /\ last.op \in {"get", "get_raw", "to_raw", "reinterpret"} =>
              raw_word_ = last.pre

\* a custom get on a word that was given a raw value with bits set in every
\* sampled range, no set having run since
C12_Witness ==
    /\ constructed /\ ~setSince
    /\ last.op = "get" /\ last.outcome = "ok" /\ last.type = DK
    /\ last.calls = <<"custom_get">>
    /\ written = 1 + 256 * 2 + 65536 * 3
    /\ raw_word_ = written

====
